---------------------------- MODULE Spec2Model ----------------------------
(***************************************************************************)
(* A model of mcp_jira.jira_client.JiraClient and of the tool server:     *)
(*   _text_to_adf / _adf_to_text   (plain text <-> document tree),         *)
(*   _convert_to_issue / _convert_to_sprint / _convert_to_team_member,     *)
(*   _process_changelog,                                                   *)
(*   Settings.validate_auth, __init__ and _get_headers (authentication),   *)
(*   get_session / close (the shared session),                             *)
(*   the request operations and simple_mcp_server.call_tool with its       *)
(*   handlers.                                                             *)
(*                                                                         *)
(* JSON values are tagged records: Null, JInt(n), JStr(s), JList(l),       *)
(* JDict(d).  A Python dict is a function from key names to JSON values,   *)
(* so dict.get(k, default) and "k in dict" are decided by DOMAIN.  A       *)
(* Python str is a sequence of symbols: a one-character symbol ("#", "-",  *)
(* "*", " ", "\n", "Z") is that character, any longer symbol ("heading",   *)
(* "Bug") abbreviates a fixed run of non-blank characters holding none of  *)
(* the former.  A call returns Ok(value) or Raise(exception name).         *)
(***************************************************************************)
EXTENDS Integers, Sequences, FiniteSets, TLC

VARIABLES
    text,       \* converter: the plain text handed to _text_to_adf
    adf,        \* converter: the document tree (built, or received from the API)
    out,        \* converter: what _adf_to_text returned
    pc,         \* converter: "input" -> "doc" -> "done"
    raw,        \* normalizer: the raw issue JSON handed to _convert_to_issue
    issue,      \* normalizer: what _convert_to_issue returned
    cfgField,   \* normalizer: the client's story_points_field setting
    rawSprint,  \* normalizer: the raw sprint JSON handed to _convert_to_sprint
    sprint,     \* normalizer: what _convert_to_sprint returned
    changelog,  \* changelog: the entries handed to _process_changelog
    history,    \* changelog: what _process_changelog returned
    heap,       \* aliasing: the list objects of the caller and of the Issue
    settings,   \* auth: the Settings values read from the environment
    jclient,    \* auth: what JiraClient(settings) returned
    headers,    \* auth: what _get_headers returned
    sessions,   \* session: the ClientSession objects created so far
    session,    \* session: JiraClient.session (0 is None)
    tasks,      \* session: the position of each task using the client
    jira_client, \* server: the module global jira_client
    tool,       \* server: the tool call being served
    spc,        \* server: the position of the tool call
    ctx,        \* server: the handler's local variables
    reply,      \* server: what call_tool returned
    trace,      \* server: the client operations requested by the tool call
    last        \* server: the last client operation and its outcome

convVars == <<text, adf, out, pc>>
issueVars == <<raw, issue, cfgField>>
sprintVars == <<rawSprint, sprint>>
logVars == <<changelog, history>>
authVars == <<settings, jclient, headers>>
sessVars == <<sessions, session, tasks>>
srvVars == <<jira_client, tool, spc, ctx, reply, trace, last>>
extVars == <<heap, authVars, sessVars, srvVars>>
vars == <<convVars, issueVars, sprintVars, logVars, extVars>>

(***************************************************************************)
(* Bounds of the model.                                                    *)
(***************************************************************************)
MaxLines == 3       \* lines of an input text
MaxEntries == 3     \* entries of a changelog

(***************************************************************************)
(* JSON values and call results.                                           *)
(***************************************************************************)
Null == [t |-> "null"]
JInt(n) == [t |-> "int", n |-> n]
JStr(s) == [t |-> "str", s |-> s]
JList(l) == [t |-> "list", l |-> l]
JDict(d) == [t |-> "dict", d |-> d]
EmptyDict == JDict(<<>>)
EmptyStr == JStr(<<>>)
W(sym) == JStr(<<sym>>)

Ok(v) == [ok |-> TRUE, v |-> v]
Raise(e) == [ok |-> FALSE, exc |-> e]
Pending == Raise("pending")

\* dict.get(k, dflt)
Get(d, k, dflt) == IF k \in DOMAIN d THEN d[k] ELSE dflt

\* Python truthiness of a JSON value ("if x", "not x")
Truthy(v) ==
    CASE v.t = "null" -> FALSE
      [] v.t = "int"  -> v.n # 0
      [] v.t = "str"  -> v.s # <<>>
      [] v.t = "list" -> v.l # <<>>
      [] v.t = "dict" -> DOMAIN v.d # {}

(***************************************************************************)
(* str operations.                                                         *)
(***************************************************************************)
Whitespace == {" ", "\n", "\t"}

\* s.startswith(p)
StartsWith(s, p) == Len(s) >= Len(p) /\ SubSeq(s, 1, Len(p)) = p

\* s[n:]
Drop(s, n) == SubSeq(s, n + 1, Len(s))

RECURSIVE LStrip(_)
LStrip(s) == IF s # <<>> /\ Head(s) \in Whitespace THEN LStrip(Tail(s)) ELSE s

RECURSIVE RStrip(_)
RStrip(s) ==
    IF s # <<>> /\ s[Len(s)] \in Whitespace THEN RStrip(SubSeq(s, 1, Len(s) - 1)) ELSE s

\* s.strip()
Strip(s) == LStrip(RStrip(s))

\* s.rstrip('Z')
RECURSIVE RStripZ(_)
RStripZ(s) ==
    IF s # <<>> /\ s[Len(s)] = "Z" THEN RStripZ(SubSeq(s, 1, Len(s) - 1)) ELSE s

\* "#" * n (the empty string for n <= 0)
RECURSIVE Repeat(_, _)
Repeat(c, n) == IF n <= 0 THEN <<>> ELSE <<c>> \o Repeat(c, n - 1)

\* s.split('\n'): the pieces between newlines, always at least one piece
RECURSIVE SplitFrom(_, _)
SplitFrom(s, cur) ==
    IF s = <<>> THEN <<cur>>
    ELSE IF Head(s) = "\n" THEN <<cur>> \o SplitFrom(Tail(s), <<>>)
    ELSE SplitFrom(Tail(s), Append(cur, Head(s)))

SplitLines(s) == SplitFrom(s, <<>>)

(***************************************************************************)
(* _text_to_adf                                                            *)
(***************************************************************************)
TextNode(s) == JDict([type |-> W("text"), text |-> JStr(s)])

HeadingNode(level, s) ==
    JDict([type |-> W("heading"),
           attrs |-> JDict([level |-> JInt(level)]),
           content |-> JList(<<TextNode(s)>>)])

ParagraphNode(s) == JDict([type |-> W("paragraph"), content |-> JList(<<TextNode(s)>>)])

ListItemNode(s) == JDict([type |-> W("listItem"), content |-> JList(<<ParagraphNode(s)>>)])

BulletListNode(items) == JDict([type |-> W("bulletList"), content |-> JList(items)])

DocNode(content) ==
    JDict([type |-> W("doc"), version |-> JInt(1), content |-> JList(content)])

\* (HeadingLevel with the space after the marker not required)
HeadingLevelLoose(line) ==
    IF StartsWith(line, <<"#", "#", "#">>) THEN 3
    ELSE IF StartsWith(line, <<"#", "#">>) THEN 2
    ELSE IF StartsWith(line, <<"#">>) THEN 1
    ELSE 0

\* the heading branches, tried in the order '### ', '## ', '# '; 0: no heading
HeadingLevel(line) ==
    IF StartsWith(line, <<"#", "#", "#", " ">>) THEN 3
    ELSE IF StartsWith(line, <<"#", "#", " ">>) THEN 2
    ELSE IF StartsWith(line, <<"#", " ">>) THEN 1
    ELSE 0

\* line[4:], line[3:], line[2:] for levels 3, 2, 1
HeadingText(line, level) == Drop(line, level + 1)

\* line.startswith('- ') or line.startswith('* ')
IsBulletLine(line) == StartsWith(line, <<"-", " ">>) \/ StartsWith(line, <<"*", " ">>)

\* (IsBlankLine without the strip)
IsBlankLineExact(line) == line = <<>>

\* line.strip() == ''
IsBlankLine(line) == Strip(line) = <<>>

\* the inner while: the first index from i on that holds no bullet line
\* (indices are 1-based here, Len(lines) + 1 is past the end)
RECURSIVE BulletRunEnd(_, _)
BulletRunEnd(lines, i) ==
    IF i <= Len(lines) /\ IsBulletLine(lines[i]) THEN BulletRunEnd(lines, i + 1) ELSE i

\* the listItem nodes of lines[i .. j-1]
BulletItems(lines, i, j) == [k \in 1..(j - i) |-> ListItemNode(Drop(lines[i + k - 1], 2))]

\* (ResumeAfterRun without the 'continue': the trailing i += 1 also runs)
ResumeAfterRunSkipping(j) == j + 1

\* where the outer loop resumes after a run that ended at j: 'continue' skips
\* the trailing i += 1, so the line that ended the run is looked at next
ResumeAfterRun(j) == j

\* the outer while loop, from line i with the nodes collected so far
RECURSIVE ScanLines(_, _, _)
ScanLines(lines, i, content) ==
    IF i > Len(lines) THEN content
    ELSE LET line == lines[i]
             level == HeadingLevel(line)
         IN  IF level # 0
                 THEN ScanLines(lines, i + 1,
                                Append(content, HeadingNode(level, HeadingText(line, level))))
             ELSE IF IsBulletLine(line)
                 THEN LET j == BulletRunEnd(lines, i)
                      IN  ScanLines(lines, ResumeAfterRun(j),
                                    Append(content, BulletListNode(BulletItems(lines, i, j))))
             ELSE IF IsBlankLine(line)
                 THEN ScanLines(lines, i + 1, content)
             ELSE ScanLines(lines, i + 1, Append(content, ParagraphNode(line)))

\* _text_to_adf(text); text is None or a str
TextToAdf(t) ==
    IF ~Truthy(t) THEN DocNode(<<>>)
    ELSE DocNode(ScanLines(SplitLines(t.s), 1, <<>>))

(***************************************************************************)
(* _adf_to_text                                                            *)
(***************************************************************************)
IsStr(v) == v.t = "str"

\* the first exception among results, else TypeError when some item is no str
\* (str.join consumes the generator, then rejects a non-str item), else the
\* concatenation
RECURSIVE ConcatStrs(_)
ConcatStrs(rs) == IF rs = <<>> THEN <<>> ELSE Head(rs).v.s \o ConcatStrs(Tail(rs))

JoinResults(rs) ==
    IF \E k \in 1..Len(rs) : ~rs[k].ok
        THEN rs[CHOOSE k \in 1..Len(rs) : ~rs[k].ok /\ \A m \in 1..(k - 1) : rs[m].ok]
    ELSE IF \E k \in 1..Len(rs) : ~IsStr(rs[k].v) THEN Raise("TypeError")
    ELSE Ok(JStr(ConcatStrs(rs)))

\* (RenderParagraph without the line break)
RenderParagraphNoBreak(content_text) == content_text

\* what each node kind appends to or puts before its children's text
RenderParagraph(content_text) == content_text \o <<"\n">>

RenderHeading(level, content_text) ==
    Repeat("#", level) \o <<" ">> \o content_text \o <<"\n">>

RenderListItem(content_text) == <<"-", " ">> \o Strip(content_text) \o <<"\n">>

RECURSIVE extract_text(_)
\* "".join(extract_text(c) for c in node.get("content", [])): iterating a list
\* gives its elements; iterating a str gives its characters and iterating a
\* dict its keys, all of them str, for which extract_text returns "";
\* None and numbers are not iterable
JoinChildren(c) ==
    CASE c.t = "list" -> JoinResults([k \in 1..Len(c.l) |-> extract_text(c.l[k])])
      [] c.t = "str"  -> Ok(EmptyStr)
      [] c.t = "dict" -> Ok(EmptyStr)
      [] OTHER        -> Raise("TypeError")

extract_text(node) ==
    IF node.t # "dict" THEN Ok(EmptyStr)
    ELSE LET d == node.d
             node_type == Get(d, "type", EmptyStr)
             children == JoinChildren(Get(d, "content", JList(<<>>)))
         IN  IF node_type = W("text") THEN Ok(Get(d, "text", EmptyStr))
             ELSE IF node_type = W("heading") THEN
                 LET attrs == Get(d, "attrs", EmptyDict)
                     level == Get(attrs.d, "level", JInt(1))
                 IN  IF attrs.t # "dict" THEN Raise("AttributeError")
                     ELSE IF level.t # "int" THEN Raise("TypeError")
                     ELSE IF ~children.ok THEN children
                     ELSE Ok(JStr(RenderHeading(level.n, children.v.s)))
             ELSE IF node_type = W("paragraph") THEN
                 IF ~children.ok THEN children
                 ELSE Ok(JStr(RenderParagraph(children.v.s)))
             ELSE IF node_type = W("listItem") THEN
                 IF ~children.ok THEN children
                 ELSE Ok(JStr(RenderListItem(children.v.s)))
             ELSE IF node_type = W("bulletList") THEN children
             ELSE IF "content" \in DOMAIN d THEN children
             ELSE Ok(EmptyStr)

\* _adf_to_text(adf)
AdfToText(a) ==
    IF ~Truthy(a) \/ a.t # "dict" THEN Ok(EmptyStr)
    ELSE LET r == extract_text(a)
         IN  IF ~r.ok THEN r
             ELSE IF ~IsStr(r.v) THEN Raise("AttributeError")
             ELSE Ok(JStr(Strip(r.v.s)))

(***************************************************************************)
(* Converter inputs: texts of up to MaxLines lines drawn from LineVocab,   *)
(* and document trees as the tracker's API may send them (RawTrees).       *)
(***************************************************************************)
LineVocab ==
    { <<>>,                                 \* blank
      <<" ">>,                              \* blank after trimming
      <<"a">>,                              \* paragraph
      <<"b", " ">>,                         \* paragraph, trailing space
      <<"#", " ", "a">>,                    \* heading 1
      <<"#", "#", " ", "a">>,               \* heading 2
      <<"#", "#", "#", " ", "a">>,          \* heading 3
      <<"#", "#", "#", "#", " ", "a">>,     \* four '#': no heading
      <<"#", "a">>,                         \* no space after '#': no heading
      <<"-", " ", "a">>,                    \* bullet
      <<"*", " ", "b">>,                    \* bullet, '*' marker
      <<"-", " ", " ", "a", " ">> }         \* bullet, text with blanks around it

RECURSIVE LineSeqs(_)
LineSeqs(n) ==
    IF n = 0 THEN {<<>>}
    ELSE LET shorter == LineSeqs(n - 1)
         IN  shorter \cup {Append(ls, l) : ls \in {x \in shorter : Len(x) = n - 1}, l \in LineVocab}

\* '\n'.join(lines)
RECURSIVE JoinLines(_)
JoinLines(ls) ==
    IF ls = <<>> THEN <<>>
    ELSE IF Len(ls) = 1 THEN ls[1]
    ELSE ls[1] \o <<"\n">> \o JoinLines(Tail(ls))

Texts == {Null} \cup {JStr(JoinLines(ls)) : ls \in LineSeqs(MaxLines)}

TreeLeaves ==
    { Null, JInt(5), W("a"), EmptyDict,
      TextNode(<<"a">>),
      TextNode(<<" ", "b", " ">>),
      JDict([type |-> W("text")]),
      JDict([type |-> W("text"), text |-> Null]),
      JDict([type |-> W("text"), text |-> JInt(5)]) }

TreeContents ==
    {Null, JInt(5), W("a"), JDict([a |-> Null]), JList(<<>>)}
        \cup {JList(<<x>>) : x \in TreeLeaves}
        \cup {JList(<<x, y>>) : x, y \in {JInt(5), TextNode(<<"a">>), TextNode(<<" ", "b", " ">>)}}

TreeAttrs ==
    { Null, EmptyDict, JList(<<>>),
      JDict([level |-> JInt(2)]), JDict([level |-> JInt(0)]),
      JDict([level |-> W("2")]), JDict([level |-> Null]) }

KnownTypes == {W("text"), W("heading"), W("paragraph"), W("listItem"), W("bulletList")}

TreeTypes == (KnownTypes \ {W("text")}) \cup {W("doc"), W("panel"), JInt(7)}

TreeNodes ==
    {JDict([type |-> ty]) : ty \in TreeTypes}
        \cup {JDict([content |-> c]) : c \in TreeContents}
        \cup {JDict([type |-> ty, content |-> c]) : ty \in TreeTypes, c \in TreeContents}
        \cup {JDict([type |-> W("heading"), attrs |-> a]) : a \in TreeAttrs}
        \cup {JDict([type |-> W("heading"), attrs |-> a, content |-> c]) :
                 a \in TreeAttrs, c \in TreeContents}

RawTrees ==
    TreeLeaves \cup TreeNodes
        \cup {JDict([type |-> ty, content |-> JList(<<n>>)]) :
                 ty \in {W("doc"), W("panel"), W("bulletList")}, n \in TreeNodes}

(***************************************************************************)
(* The converter as a state machine: a text is converted and rendered      *)
(* back ("input" -> "doc" -> "done"), or a tree received from the API is   *)
(* rendered ("received" -> "rendered").                                    *)
(***************************************************************************)
DefaultStoryPointsField == "customfield_10026"

IssueIdle == raw = Null /\ issue = Pending /\ cfgField = DefaultStoryPointsField
SprintIdle == rawSprint = Null /\ sprint = Pending
LogIdle == changelog = <<>> /\ history = Pending
HeapIdle == heap = <<>>
AuthIdle == settings = Null /\ jclient = Pending /\ headers = Pending
SessionIdle == sessions = <<>> /\ session = 0 /\ tasks = <<>>
ServerIdle ==
    /\ jira_client = Null /\ tool = Null /\ spc = "idle" /\ ctx = Null
    /\ reply = Null /\ trace = <<>> /\ last = Null
ExtIdle == HeapIdle /\ AuthIdle /\ SessionIdle /\ ServerIdle

ConvInit ==
    /\ \/ pc = "input" /\ text \in Texts /\ adf = Null
       \/ pc = "received" /\ text = Null /\ adf \in RawTrees
    /\ out = Pending
    /\ IssueIdle /\ SprintIdle /\ LogIdle /\ ExtIdle

ConvertText ==
    /\ pc = "input"
    /\ adf' = TextToAdf(text)
    /\ pc' = "doc"
    /\ UNCHANGED <<text, out, issueVars, sprintVars, logVars, extVars>>

RenderText ==
    /\ pc \in {"doc", "received"}
    /\ out' = AdfToText(adf)
    /\ pc' = (IF pc = "doc" THEN "done" ELSE "rendered")
    /\ UNCHANGED <<text, adf, issueVars, sprintVars, logVars, extVars>>

ConvNext == ConvertText \/ RenderText

SpecConv == ConvInit /\ [][ConvNext]_vars

(***************************************************************************)
(* Converter properties.  They describe the expected document from the     *)
(* input lines alone: a "unit" is a line that must yield a node (a         *)
(* non-blank line outside any bullet run) or the first line of a maximal   *)
(* run of bullet lines; the k-th unit must yield the k-th node.            *)
(***************************************************************************)
InputLines == IF Truthy(text) THEN SplitLines(text.s) ELSE <<>>

BuiltContent == adf.d.content.l

MarkerOf(n) == Repeat("#", n) \o <<" ">>

BulletAt(ls, i) == StartsWith(ls[i], <<"-", " ">>) \/ StartsWith(ls[i], <<"*", " ">>)

BlankAt(ls, i) == \A k \in 1..Len(ls[i]) : ls[i][k] \in Whitespace

RunStarts(ls) == {i \in 1..Len(ls) : BulletAt(ls, i) /\ (i = 1 \/ ~BulletAt(ls, i - 1))}

\* the last line of the maximal run that starts at i
RunLast(ls, i) ==
    CHOOSE j \in i..Len(ls) :
        /\ \A k \in i..j : BulletAt(ls, k)
        /\ (j = Len(ls) \/ ~BulletAt(ls, j + 1))

LineUnits(ls) == {i \in 1..Len(ls) : ~BulletAt(ls, i) /\ ~BlankAt(ls, i)}

Units(ls) == LineUnits(ls) \cup RunStarts(ls)

UnitIndex(ls, u) == Cardinality({v \in Units(ls) : v <= u})

ExpectedItem(line) ==
    JDict([type |-> W("listItem"),
           content |-> JList(<<JDict([type |-> W("paragraph"),
                                      content |-> JList(<<JDict([type |-> W("text"),
                                                                 text |-> JStr(Drop(line, 2))])>>)])>>)])

ExpectedBulletList(ls, i) ==
    JDict([type |-> W("bulletList"),
           content |-> JList([m \in 1..(RunLast(ls, i) - i + 1) |-> ExpectedItem(ls[i + m - 1])])])

ExpectedHeading(n, line) ==
    JDict([type |-> W("heading"),
           attrs |-> JDict([level |-> JInt(n)]),
           content |-> JList(<<JDict([type |-> W("text"), text |-> JStr(Drop(line, n + 1))])>>)])

ExpectedParagraph(line) ==
    JDict([type |-> W("paragraph"),
           content |-> JList(<<JDict([type |-> W("text"), text |-> JStr(line)])>>)])

EmptyDocument == JDict([type |-> W("doc"), version |-> JInt(1), content |-> JList(<<>>)])

\* lines of the supported subset
HeadingLine(l) == \E n \in 1..3 : StartsWith(l, MarkerOf(n))
BulletLine(l) == StartsWith(l, <<"-", " ">>) \/ StartsWith(l, <<"*", " ">>)
PlainLine(l) ==
    /\ \E k \in 1..Len(l) : l[k] \notin Whitespace
    /\ ~HeadingLine(l) /\ ~BulletLine(l)
    /\ l[1] # "#"
SupportedLine(l) == HeadingLine(l) \/ BulletLine(l) \/ PlainLine(l)

\* a bullet line as toText writes it: "- " marker, item text without blanks around it
CanonicalBullet(l) == StartsWith(l, <<"-", " ">>) /\ Strip(Drop(l, 2)) = Drop(l, 2)

RoundTripOk == out.ok /\ out.v.t = "str" /\ Strip(out.v.s) = Strip(text.s)

\* C1 as stated: for every text built only from heading lines of depth 1-3,
\* bullet lines ("- " or "* ") and plain paragraph lines,
\* trim(toText(toDocument(s))) = trim(s).
C1_RoundTripAsStated ==
    (pc = "done" /\ text # Null /\ \A k \in 1..Len(InputLines) : SupportedLine(InputLines[k]))
        => RoundTripOk

\* C1 amended: the round trip trim(toText(toDocument(s))) = trim(s) holds for
\* every text built only from heading lines of depth 1-3, plain paragraph lines
\* and bullet lines that start with "- " and whose item text has no leading or
\* trailing whitespace.
C1_RoundTripCanonical ==
    (/\ pc = "done" /\ text # Null
     /\ \A k \in 1..Len(InputLines) :
            /\ SupportedLine(InputLines[k])
            /\ BulletLine(InputLines[k]) => CanonicalBullet(InputLines[k]))
        => RoundTripOk

C1_Witness ==
    /\ pc = "done" /\ Truthy(text)
    /\ \A k \in 1..Len(InputLines) :
           /\ SupportedLine(InputLines[k])
           /\ BulletLine(InputLines[k]) => CanonicalBullet(InputLines[k])
    /\ \E i, j, k \in 1..Len(InputLines) :
           HeadingLine(InputLines[i]) /\ BulletLine(InputLines[j]) /\ PlainLine(InputLines[k])
    /\ RoundTripOk

\* C5 as stated: toText never fails, whatever tree it is given.
C5_ToTextNeverFails == pc \in {"done", "rendered"} => out.ok

\* C8: every maximal run of bullet lines yields exactly one bulletList node with
\* one listItem per line of the run, in order, each wrapping a paragraph with the
\* line's text after its 2-character marker; every non-blank line outside the
\* runs, the line that ends a run included, yields its own node, and nothing
\* else does.
C8_BulletRuns ==
    (pc \in {"doc", "done"} /\ Truthy(text)) =>
        LET ls == InputLines
        IN  /\ Len(BuiltContent) = Cardinality(Units(ls))
            /\ \A i \in RunStarts(ls) :
                   BuiltContent[UnitIndex(ls, i)] = ExpectedBulletList(ls, i)
            /\ \A i \in LineUnits(ls) :
                   BuiltContent[UnitIndex(ls, i)].d.type \in {W("heading"), W("paragraph")}

C8_Witness ==
    /\ pc = "doc" /\ Truthy(text)
    /\ \E i \in RunStarts(InputLines) :
           /\ RunLast(InputLines, i) = i + 1
           /\ i + 2 \in LineUnits(InputLines)
           /\ Len(BuiltContent) = 2
           /\ Len(BuiltContent[1].d.content.l) = 2

\* C9: a line beginning with "# ", "## " or "### " becomes a heading of level 1,
\* 2 or 3 with a single text child, the line without the marker and its space; a
\* line with four or more leading '#' becomes a paragraph holding the full line;
\* no heading node has a level outside {1,2,3}.
C9_Headings ==
    (pc \in {"doc", "done"} /\ Truthy(text)) =>
        LET ls == InputLines
        IN  /\ \A i \in LineUnits(ls) :
                   /\ \A n \in 1..3 :
                          StartsWith(ls[i], MarkerOf(n)) =>
                              BuiltContent[UnitIndex(ls, i)] = ExpectedHeading(n, ls[i])
                   /\ StartsWith(ls[i], Repeat("#", 4)) =>
                          BuiltContent[UnitIndex(ls, i)] = ExpectedParagraph(ls[i])
            /\ \A k \in 1..Len(BuiltContent) :
                   BuiltContent[k].d.type = W("heading") =>
                       BuiltContent[k].d.attrs.d.level \in {JInt(1), JInt(2), JInt(3)}

C9_Witness ==
    /\ pc = "doc" /\ Truthy(text)
    /\ \E i, j \in LineUnits(InputLines) :
           /\ StartsWith(InputLines[i], MarkerOf(2))
           /\ BuiltContent[UnitIndex(InputLines, i)].d.attrs.d.level = JInt(2)
           /\ StartsWith(InputLines[j], Repeat("#", 4))
           /\ BuiltContent[UnitIndex(InputLines, j)].d.type = W("paragraph")

\* C10: empty or missing text converts to {type doc, version 1, content []};
\* toText of that document, and of a null document, is the empty string; blank
\* lines produce no node, so a text of blank lines only yields empty content.
C10_EmptyAndBlank ==
    /\ (pc \in {"doc", "done"} /\ ~Truthy(text)) => adf = EmptyDocument
    /\ (pc \in {"doc", "done"} /\ Truthy(text)) =>
           /\ Len(BuiltContent) <= Cardinality({i \in 1..Len(InputLines) : ~BlankAt(InputLines, i)})
           /\ (\A i \in 1..Len(InputLines) : BlankAt(InputLines, i)) => adf = EmptyDocument
    /\ (pc = "done" /\ adf = EmptyDocument) => out = Ok(JStr(<<>>))
    /\ (pc = "rendered" /\ adf = Null) => out = Ok(JStr(<<>>))

C10_Witness ==
    /\ pc = "done" /\ Truthy(text) /\ Len(InputLines) = 2
    /\ \A i \in 1..Len(InputLines) : BlankAt(InputLines, i)
    /\ \E i \in 1..Len(InputLines) : InputLines[i] # <<>>
    /\ adf = EmptyDocument /\ out = Ok(JStr(<<>>))

(***************************************************************************)
(* Enums of mcp_jira.types.  A member is written as its value; Enum(value) *)
(* returns the member with that value and raises ValueError, whose message *)
(* quotes the value, when there is none.                                   *)
(***************************************************************************)
IssueTypeValues == {W("Story"), W("Bug"), W("Task"), W("Epic")}
PriorityValues == {W("Highest"), W("High"), W("Medium"), W("Low"), W("Lowest")}
IssueStatusValues == {W("To Do"), W("In Progress"), W("Done"), W("Blocked")}
SprintStatusValues == {W("future"), W("active"), W("closed")}

RaiseAbout(e, v) == [ok |-> FALSE, exc |-> e, about |-> v]

EnumCall(members, value) ==
    IF value \in members THEN Ok(value) ELSE RaiseAbout("ValueError", value)

(***************************************************************************)
(* datetime.fromisoformat(s.rstrip('Z')).  An ISO-8601 date-time without   *)
(* zone suffix is one symbol of IsoBodies; every other string is rejected. *)
(***************************************************************************)
IsoBodies == {"2024-01-01T10:00:00", "2024-02-02T12:30:00"}

DateTime(body) == [iso |-> body, clock |-> 0]

\* datetime.now() read at clock tick n
Now(n) == [iso |-> "now", clock |-> n]

FromIsoStripped(v) ==
    IF v.t # "str" THEN Raise("AttributeError")
    ELSE LET b == RStripZ(v.s)
         IN  IF Len(b) = 1 /\ b[1] \in IsoBodies THEN Ok(DateTime(b[1]))
             ELSE Raise("ValueError")

\* the first failed result of a sequence of results
FirstFailure(rs) == rs[CHOOSE k \in 1..Len(rs) : ~rs[k].ok /\ \A m \in 1..(k - 1) : rs[m].ok]

(***************************************************************************)
(* _convert_to_issue and _convert_to_team_member                           *)
(***************************************************************************)
\* (ParseOrDefault without the enum call: the raw name is kept)
ParseOrKeep(members, name, dflt) == name

\* try: Enum(name) / except ValueError: default
ParseOrDefault(members, name, dflt) ==
    IF EnumCall(members, name).ok THEN EnumCall(members, name).v ELSE dflt

\* x_data = fields.get(field, {}); x_name = x_data.get("name", dflt) if x_data else dflt;
\* then the enum parse with its fallback
EnumFieldOf(f, field, members, dflt) ==
    LET x_data == Get(f, field, EmptyDict)
    IN  IF ~Truthy(x_data) THEN Ok(ParseOrDefault(members, dflt, dflt))
        ELSE IF x_data.t # "dict" THEN Raise("AttributeError")
        ELSE Ok(ParseOrDefault(members, Get(x_data.d, "name", dflt), dflt))

\* datetime.fromisoformat(x_str.rstrip('Z')) if x_str else datetime.now()
TimestampOf(f, field, n) ==
    LET x_str == Get(f, field, Null)
    IN  IF Truthy(x_str) THEN FromIsoStripped(x_str) ELSE Ok(Now(n))

\* (the description handed on as it came, a document tree included)
DescriptionOfRaw(f) == Ok(Get(f, "description", Null))

\* description = fields.get("description"); decoded when it is a dict
DescriptionOf(f) ==
    LET description == Get(f, "description", Null)
    IN  IF description.t = "dict" THEN AdfToText(description) ELSE Ok(description)

\* _convert_to_team_member(data)
ConvertToTeamMember(data) ==
    IF data.t # "dict" THEN Raise("AttributeError")
    ELSE Ok([username |-> Get(data.d, "accountId", Get(data.d, "name", EmptyStr)),
             display_name |-> Get(data.d, "displayName", EmptyStr),
             email |-> Get(data.d, "emailAddress", Null),
             role |-> Null])

\* (the assignee converted whenever the key holds anything but null)
AssigneeOfPresent(f) ==
    LET a == Get(f, "assignee", Null)
    IN  IF a # Null THEN ConvertToTeamMember(a) ELSE Ok(Null)

\* self._convert_to_team_member(fields.get("assignee")) if fields.get("assignee") else None
AssigneeOf(f) ==
    LET a == Get(f, "assignee", Null)
    IN  IF Truthy(a) THEN ConvertToTeamMember(a) ELSE Ok(Null)

\* c["name"] for one element c
ComponentName(c) ==
    IF c.t # "dict" THEN Raise("TypeError")
    ELSE IF "name" \notin DOMAIN c.d THEN Raise("KeyError")
    ELSE Ok(c.d.name)

\* [c["name"] for c in fields.get("components", [])]
ComponentsOf(f) ==
    LET cs == Get(f, "components", JList(<<>>))
    IN  CASE cs.t = "list" ->
                LET rs == [k \in 1..Len(cs.l) |-> ComponentName(cs.l[k])]
                IN  IF \E k \in 1..Len(rs) : ~rs[k].ok THEN FirstFailure(rs)
                    ELSE Ok([k \in 1..Len(rs) |-> rs[k].v])
          [] cs.t \in {"str", "dict"} -> IF Truthy(cs) THEN Raise("TypeError") ELSE Ok(<<>>)
          [] OTHER -> Raise("TypeError")

\* data.get("key", "UNKNOWN")
KeyOf(d) == Get(d, "key", W("UNKNOWN"))

\* (story points read from the default field whatever the client's setting)
StoryPointsOfDefault(f, story_points_field) == Get(f, DefaultStoryPointsField, Null)

\* fields.get(self.story_points_field)
StoryPointsOf(f, story_points_field) == Get(f, story_points_field, Null)

\* fields.get("labels", [])
LabelsOf(f) == Get(f, "labels", JList(<<>>))

\* _convert_to_issue(data) of a client configured with story_points_field,
\* with datetime.now() reading n1 and then n2
ConvertToIssue(data, story_points_field, n1, n2) ==
    LET fields == Get(data.d, "fields", EmptyDict)
    IN  IF fields.t # "dict" THEN Raise("AttributeError")
        ELSE LET f == fields.d
                 issue_type == EnumFieldOf(f, "issuetype", IssueTypeValues, W("Task"))
                 priority == EnumFieldOf(f, "priority", PriorityValues, W("Medium"))
                 status == EnumFieldOf(f, "status", IssueStatusValues, W("To Do"))
                 created_at == TimestampOf(f, "created", n1)
                 updated_at == TimestampOf(f, "updated", n2)
                 description == DescriptionOf(f)
                 assignee == AssigneeOf(f)
                 components == ComponentsOf(f)
                 steps == <<issue_type, priority, status, created_at, updated_at,
                            description, assignee, components>>
             IN  IF \E k \in 1..Len(steps) : ~steps[k].ok THEN FirstFailure(steps)
                 ELSE Ok([key |-> KeyOf(data.d),
                          summary |-> Get(f, "summary", EmptyStr),
                          description |-> description.v,
                          issue_type |-> issue_type.v,
                          priority |-> priority.v,
                          status |-> status.v,
                          assignee |-> assignee.v,
                          story_points |-> StoryPointsOf(f, story_points_field),
                          labels |-> LabelsOf(f),
                          components |-> components.v,
                          created_at |-> created_at.v,
                          updated_at |-> updated_at.v,
                          blocked_by |-> <<>>,
                          blocks |-> <<>>])

(***************************************************************************)
(* _convert_to_sprint                                                      *)
(***************************************************************************)
\* data[key]
Subscript(d, k) == IF k \in DOMAIN d THEN Ok(d[k]) ELSE RaiseAbout("KeyError", W(k))

\* (SprintStatusOf with a fallback member instead of the ValueError)
SprintStatusLenient(d) ==
    IF ~Subscript(d, "state").ok THEN Subscript(d, "state")
    ELSE IF EnumCall(SprintStatusValues, d.state).ok THEN Ok(d.state)
    ELSE Ok(W("future"))

\* SprintStatus(data["state"])
SprintStatusOf(d) ==
    IF ~Subscript(d, "state").ok THEN Subscript(d, "state")
    ELSE EnumCall(SprintStatusValues, d.state)

\* datetime.fromisoformat(data[k].rstrip('Z')) if data.get(k) else None
OptionalDateOf(d, k) ==
    IF Truthy(Get(d, k, Null)) THEN FromIsoStripped(d[k]) ELSE Ok(Null)

ConvertToSprint(data) ==
    LET d == data.d
        steps == <<Subscript(d, "id"), Subscript(d, "name"), SprintStatusOf(d),
                   OptionalDateOf(d, "startDate"), OptionalDateOf(d, "endDate")>>
    IN  IF \E k \in 1..Len(steps) : ~steps[k].ok THEN FirstFailure(steps)
        ELSE Ok([id |-> d.id,
                 name |-> d.name,
                 goal |-> Get(d, "goal", Null),
                 status |-> steps[3].v,
                 start_date |-> steps[4].v,
                 end_date |-> steps[5].v])

(***************************************************************************)
(* Normalizer inputs.  A raw record is a dict built from optional keys:    *)
(* Absent leaves the key out.                                              *)
(***************************************************************************)
Absent == [t |-> "absent"]

Opt(k, v) == IF v = Absent THEN <<>> ELSE (k :> v)

IsoZ == JStr(<<"2024-01-01T10:00:00", "Z">>)
IsoPlain == JStr(<<"2024-02-02T12:30:00">>)
NotIso == JStr(<<"yesterday">>)

IssueTypeInputs ==
    { Absent, Null, EmptyDict, W("Bug"),
      JDict([name |-> W("Bug")]), JDict([name |-> W("Nonsense")]), JDict([id |-> W("3")]) }

PriorityInputs ==
    {Absent, Null, JDict([name |-> W("High")]), JDict([name |-> W("Nonsense")]), JDict([name |-> Null])}

StatusInputs ==
    {Absent, Null, JDict([name |-> W("Done")]), JDict([name |-> W("Nonsense")]), JInt(3)}

CreatedInputs == {Absent, IsoZ, NotIso, JInt(5)}

UpdatedInputs == {Absent, Null, IsoPlain}

ComponentsInputs ==
    { Absent, Null, JList(<<>>),
      JList(<<JDict([name |-> W("api")]), JDict([name |-> W("ui")])>>),
      JList(<<JDict([id |-> W("7")])>>) }

AssigneeInputs ==
    { Absent, Null, W("bob"),
      JDict([accountId |-> W("acc-1"), displayName |-> W("Bob"), emailAddress |-> W("bob@x")]) }

RawFields ==
    { JDict(Opt("issuetype", it) @@ Opt("priority", pr) @@ Opt("status", st)
              @@ Opt("created", cr) @@ Opt("updated", up)
              @@ Opt("components", co) @@ Opt("assignee", asg)) :
        it \in IssueTypeInputs, pr \in PriorityInputs, st \in StatusInputs,
        cr \in CreatedInputs, up \in UpdatedInputs,
        co \in ComponentsInputs, asg \in AssigneeInputs }

RawIssues ==
    {EmptyDict, JDict([fields |-> Null]), JDict([key |-> W("PROJ-1"), fields |-> W("x")])}
        \cup {JDict([key |-> W("PROJ-1"), fields |-> f]) : f \in RawFields}

Clock == 1..2

ConvIdle == text = Null /\ adf = Null /\ out = Pending /\ pc = "idle"

IssueInit ==
    /\ raw \in RawIssues
    /\ issue = Pending
    /\ cfgField = DefaultStoryPointsField
    /\ ConvIdle /\ SprintIdle /\ LogIdle /\ ExtIdle

\* one call of _convert_to_issue; the two datetime.now() readings are in order
NormalizeIssue ==
    /\ issue = Pending
    /\ \E n1, n2 \in Clock :
           /\ n1 <= n2
           /\ issue' = ConvertToIssue(raw, cfgField, n1, n2)
    /\ UNCHANGED <<raw, cfgField, convVars, sprintVars, logVars, extVars>>

IssueNext == NormalizeIssue

SpecIssue == IssueInit /\ [][IssueNext]_vars

SprintInputs ==
    { JDict(Opt("id", id) @@ Opt("name", nm) @@ Opt("goal", gl) @@ Opt("state", st)
              @@ Opt("startDate", sd) @@ Opt("endDate", ed)) :
        id \in {Absent, JInt(7)}, nm \in {Absent, W("Sprint 1")}, gl \in {Absent, W("ship")},
        st \in { Absent, Null, JInt(1), W("future"), W("active"), W("closed"),
                 W("unknown_state"), W("ACTIVE") },
        sd \in {Absent, Null, IsoZ, NotIso},
        ed \in {Absent, IsoPlain, JInt(5)} }

SprintInit ==
    /\ rawSprint \in SprintInputs
    /\ sprint = Pending
    /\ ConvIdle /\ IssueIdle /\ LogIdle /\ ExtIdle

\* one call of _convert_to_sprint
NormalizeSprint ==
    /\ sprint = Pending
    /\ sprint' = ConvertToSprint(rawSprint)
    /\ UNCHANGED <<rawSprint, convVars, issueVars, logVars, extVars>>

SprintNext == NormalizeSprint

SpecSprint == SprintInit /\ [][SprintNext]_vars

(***************************************************************************)
(* Normalizer properties.                                                  *)
(***************************************************************************)
IssueReturned == issue # Pending /\ issue.ok

\* the raw value of fields[k], Absent when fields or the key is missing
RawField(k) ==
    IF "fields" \in DOMAIN raw.d /\ raw.d.fields.t = "dict" /\ k \in DOMAIN raw.d.fields.d
        THEN raw.d.fields.d[k]
    ELSE Absent

\* the raw value of fields[k]["name"], Absent when there is none
RawName(k) ==
    IF RawField(k).t = "dict" /\ "name" \in DOMAIN RawField(k).d THEN RawField(k).d.name
    ELSE Absent

IssueTypes == {W("Story"), W("Bug"), W("Task"), W("Epic")}
Priorities == {W("Highest"), W("High"), W("Medium"), W("Low"), W("Lowest")}
IssueStatuses == {W("To Do"), W("In Progress"), W("Done"), W("Blocked")}

\* C2 as stated: _convert_to_issue never raises; for every raw JSON object it
\* returns an Issue.
C2_NormalizeIssueNeverRaises == issue # Pending => issue.ok

\* C3: in every Issue returned, issue_type, priority and status are members of
\* their enums; a missing field or a name that matches no member gives Task,
\* Medium and "To Do"; a recognized name is kept.
C3_EnumFallback ==
    IssueReturned =>
        /\ issue.v.issue_type \in IssueTypes
        /\ issue.v.priority \in Priorities
        /\ issue.v.status \in IssueStatuses
        /\ issue.v.issue_type =
               (IF RawName("issuetype") \in IssueTypes THEN RawName("issuetype") ELSE W("Task"))
        /\ issue.v.priority =
               (IF RawName("priority") \in Priorities THEN RawName("priority") ELSE W("Medium"))
        /\ issue.v.status =
               (IF RawName("status") \in IssueStatuses THEN RawName("status") ELSE W("To Do"))

C3_Witness ==
    /\ IssueReturned
    /\ RawName("issuetype") = W("Nonsense") /\ issue.v.issue_type = W("Task")
    /\ RawName("priority") = W("High") /\ issue.v.priority = W("High")
    /\ RawField("status") = Absent /\ issue.v.status = W("To Do")

SprintCalled == sprint # Pending

UnknownState ==
    /\ "state" \in DOMAIN rawSprint.d
    /\ rawSprint.d.state \notin {W("future"), W("active"), W("closed")}

\* C4 as stated: a raw sprint whose state is not one of future/active/closed
\* makes _convert_to_sprint raise a distinct NormalizationError naming the value.
C4_NormalizationErrorAsStated ==
    (SprintCalled /\ UnknownState /\ {"id", "name"} \subseteq DOMAIN rawSprint.d) =>
        (~sprint.ok /\ sprint.exc = "NormalizationError")

\* C4 amended: a raw sprint whose state is not one of future/active/closed
\* yields no Sprint: _convert_to_sprint raises, and when id and name are present
\* the exception is the enum's ValueError, which names the offending value.
C4_UnknownStateRaisesValueError ==
    (SprintCalled /\ UnknownState) =>
        /\ ~sprint.ok
        /\ {"id", "name"} \subseteq DOMAIN rawSprint.d =>
               (sprint.exc = "ValueError" /\ sprint.about = rawSprint.d.state)

C4_Witness ==
    /\ SprintCalled
    /\ {"id", "name"} \subseteq DOMAIN rawSprint.d
    /\ "state" \in DOMAIN rawSprint.d /\ rawSprint.d.state = W("unknown_state")
    /\ ~sprint.ok /\ sprint.exc = "ValueError" /\ sprint.about = W("unknown_state")

(***************************************************************************)
(* _process_changelog                                                      *)
(***************************************************************************)
\* (IsStatusItem without the test)
IsAnyItem(item) == TRUE

\* item["field"] == "status"
IsStatusItem(item) == item.d.field = W("status")

\* entry["author"]["displayName"]
AuthorOf(entry) ==
    LET a == Subscript(entry.d, "author")
    IN  IF ~a.ok THEN a
        ELSE IF a.v.t # "dict" THEN Raise("TypeError")
        ELSE Subscript(a.v.d, "displayName")

\* datetime.fromisoformat(entry["created"].rstrip('Z'))
CreatedOf(entry) ==
    LET c == Subscript(entry.d, "created")
    IN  IF ~c.ok THEN c ELSE FromIsoStripped(c.v)

\* (HistoryRecord with fromString and toString exchanged)
HistoryRecordSwapped(entry, item) ==
    [from_status |-> item.d.toString,
     to_status |-> item.d.fromString,
     from_date |-> CreatedOf(entry).v,
     author |-> AuthorOf(entry).v]

\* the dict appended for one status item
HistoryRecord(entry, item) ==
    [from_status |-> item.d.fromString,
     to_status |-> item.d.toString,
     from_date |-> CreatedOf(entry).v,
     author |-> AuthorOf(entry).v]

\* one pass of the inner loop body: the records appended for item (none or one)
ItemStep(entry, item) ==
    IF "field" \notin DOMAIN item.d THEN RaiseAbout("KeyError", W("field"))
    ELSE IF ~IsStatusItem(item) THEN Ok(<<>>)
    ELSE LET steps == <<Subscript(item.d, "fromString"), Subscript(item.d, "toString"),
                        CreatedOf(entry), AuthorOf(entry)>>
         IN  IF \E k \in 1..Len(steps) : ~steps[k].ok THEN FirstFailure(steps)
             ELSE Ok(<<HistoryRecord(entry, item)>>)

\* the concatenation of the records of a sequence of steps, or their first failure
RECURSIVE ConcatRecords(_)
ConcatRecords(rs) == IF rs = <<>> THEN <<>> ELSE Head(rs).v \o ConcatRecords(Tail(rs))

Collect(rs) ==
    IF \E k \in 1..Len(rs) : ~rs[k].ok THEN FirstFailure(rs) ELSE Ok(ConcatRecords(rs))

\* for item in entry["items"]: ...
EntryStep(entry) ==
    IF "items" \notin DOMAIN entry.d THEN RaiseAbout("KeyError", W("items"))
    ELSE Collect([k \in 1..Len(entry.d.items.l) |-> ItemStep(entry, entry.d.items.l[k])])

\* _process_changelog(changelog)
ProcessChangelog(cl) == Collect([k \in 1..Len(cl) |-> EntryStep(cl[k])])

(***************************************************************************)
(* Changelog inputs: up to MaxEntries entries drawn from EntryVocab.  An   *)
(* entry that carries a status item follows the tracker's schema (created, *)
(* author.displayName, fromString, toString).                              *)
(***************************************************************************)
StatusItem(from, to) == JDict([field |-> W("status"), fromString |-> from, toString |-> to])

OtherItem(name) == JDict([field |-> W(name), fromString |-> W("x"), toString |-> W("y")])

Entry(created, who, items) ==
    JDict([created |-> created, author |-> JDict([displayName |-> W(who)]), items |-> JList(items)])

EntryVocab ==
    { JDict([items |-> JList(<<>>)]),
      JDict([items |-> JList(<<JDict([field |-> W("labels")])>>)]),
      Entry(IsoZ, "A", <<>>),
      Entry(IsoZ, "A", <<StatusItem(W("Open"), W("Doing"))>>),
      Entry(IsoPlain, "B", <<OtherItem("priority")>>),
      Entry(IsoZ, "A", <<StatusItem(W("Open"), W("Doing")), OtherItem("priority"),
                         StatusItem(W("Doing"), W("Done"))>>),
      Entry(IsoPlain, "B", <<OtherItem("Status"), StatusItem(Null, W("Open"))>>),
      Entry(IsoPlain, "B", <<StatusItem(W("Done"), W("Open")), StatusItem(W("Open"), W("Done"))>>) }

RECURSIVE EntrySeqs(_)
EntrySeqs(n) ==
    IF n = 0 THEN {<<>>}
    ELSE LET shorter == EntrySeqs(n - 1)
         IN  shorter \cup {Append(es, e) : es \in {x \in shorter : Len(x) = n - 1}, e \in EntryVocab}

LogInit ==
    /\ changelog \in EntrySeqs(MaxEntries)
    /\ history = Pending
    /\ ConvIdle /\ IssueIdle /\ SprintIdle /\ ExtIdle

\* one call of _process_changelog
ExtractStatusTransitions ==
    /\ history = Pending
    /\ history' = ProcessChangelog(changelog)
    /\ UNCHANGED <<changelog, convVars, issueVars, sprintVars, extVars>>

LogNext == ExtractStatusTransitions

SpecLog == LogInit /\ [][LogNext]_vars

(***************************************************************************)
(* Changelog properties.  A status position is a pair <<e, i>>: item i of  *)
(* entry e has field "status"; positions are ordered by entry, then item.  *)
(***************************************************************************)
ItemsOf(e) == changelog[e].d.items.l

StatusPositions ==
    UNION { {<<e, i>> : i \in {j \in 1..Len(ItemsOf(e)) : ItemsOf(e)[j].d.field = JStr(<<"status">>)}} :
            e \in 1..Len(changelog) }

Before(p, q) == p[1] < q[1] \/ (p[1] = q[1] /\ p[2] <= q[2])

Rank(p) == Cardinality({q \in StatusPositions : Before(q, p)})

HistoryReturned == history # Pending /\ history.ok

\* C6: exactly one record per item whose field equals "status", in entry order
\* and, within an entry, in item order; other items are dropped, and entries
\* with no items or no status items add no record and cause no error.
C6_OneRecordPerStatusItem ==
    history # Pending =>
        /\ history.ok
        /\ Len(history.v) = Cardinality(StatusPositions)
        /\ \A p \in StatusPositions :
               /\ history.v[Rank(p)].from_status = ItemsOf(p[1])[p[2]].d.fromString
               /\ history.v[Rank(p)].to_status = ItemsOf(p[1])[p[2]].d.toString

C6_Witness ==
    /\ HistoryReturned
    /\ Len(changelog) = 3
    /\ Len(ItemsOf(1)) = 0
    /\ Len(ItemsOf(2)) = 3 /\ <<2, 1>> \in StatusPositions /\ <<2, 2>> \notin StatusPositions
    /\ <<3, 2>> \in StatusPositions
    /\ Len(history.v) = 3

\* C7 as stated: each record has exactly the fields from_status, to_status,
\* transition_date and author.
C7_FieldNamesAsStated ==
    HistoryReturned =>
        \A k \in 1..Len(history.v) :
            DOMAIN history.v[k] = {"from_status", "to_status", "transition_date", "author"}

\* C7 amended: each record has exactly the fields from_status (item fromString),
\* to_status (item toString), from_date (the entry's created timestamp, parsed
\* with trailing 'Z' stripped) and author (entry author.displayName); the
\* timestamp field is named from_date, not transition_date.
C7_RecordFields ==
    HistoryReturned =>
        /\ \A k \in 1..Len(history.v) :
               DOMAIN history.v[k] = {"from_status", "to_status", "from_date", "author"}
        /\ \A p \in StatusPositions :
               LET rec == history.v[Rank(p)]
                   entry == changelog[p[1]].d
                   item == ItemsOf(p[1])[p[2]].d
               IN  /\ rec.from_status = item.fromString
                   /\ rec.to_status = item.toString
                   /\ rec.author = entry.author.d.displayName
                   /\ rec.from_date.iso = entry.created.s[1]

C7_Witness ==
    /\ HistoryReturned
    /\ Len(history.v) >= 2
    /\ history.v[1] = [from_status |-> W("Open"), to_status |-> W("Doing"),
                       from_date |-> [iso |-> "2024-01-01T10:00:00", clock |-> 0],
                       author |-> W("A")]
    /\ history.v[2].author = W("B")

(***************************************************************************)
(* The field mapping of _convert_to_issue: description, assignee, key,     *)
(* labels, components and story points, for a client whose                 *)
(* story_points_field is the default or another custom field.              *)
(***************************************************************************)
OtherStoryPointsField == "customfield_10016"

StoryPointsFields == {DefaultStoryPointsField, OtherStoryPointsField}

GoodTree == TextToAdf(JStr(<<"#", " ", "a", "\n", "b", " ">>))
BadTree == JDict([type |-> W("paragraph"), content |-> Null])

DescriptionInputs == {Absent, Null, W("plain"), JInt(5), EmptyDict, GoodTree, BadTree}

FullAssignee ==
    JDict([accountId |-> W("acc-1"), name |-> W("bob"),
           displayName |-> W("Bob"), emailAddress |-> W("bob@x")])

NamedAssignee == JDict([name |-> W("bob"), displayName |-> W("Bob")])

AssigneeObjects == {EmptyDict, FullAssignee, NamedAssignee, JDict([emailAddress |-> W("bob@x")])}

LabelsInputs == {Absent, JList(<<>>), JList(<<W("a"), W("b")>>)}

FieldRecords ==
    { JDict(Opt("description", de) @@ Opt("assignee", asg) @@ Opt("labels", la)
              @@ Opt("components", co) @@ Opt(DefaultStoryPointsField, sp)
              @@ Opt(OtherStoryPointsField, osp) @@ ("created" :> IsoZ) @@ ("updated" :> IsoPlain)) :
        de \in DescriptionInputs, asg \in {Absent, Null} \cup AssigneeObjects,
        la \in LabelsInputs,
        co \in {Absent, JList(<<JDict([name |-> W("api")]), JDict([name |-> W("ui")])>>)},
        sp \in {Absent, Null, JInt(3)}, osp \in {Absent, JInt(8)} }

FieldIssues ==
    {EmptyDict} \cup {JDict(Opt("key", k) @@ ("fields" :> f)) :
                         k \in {Absent, W("PROJ-1")}, f \in FieldRecords}

FieldsInit ==
    /\ raw \in FieldIssues
    /\ issue = Pending
    /\ cfgField \in StoryPointsFields
    /\ ConvIdle /\ SprintIdle /\ LogIdle /\ ExtIdle

SpecFields == FieldsInit /\ [][IssueNext]_vars

\* C12: in the Issue _convert_to_issue returns, description is the rendering
\* (_adf_to_text) of the raw description when that is a JSON object, the raw
\* value itself when it is anything else, and None when the field is absent.
C12_Description ==
    IssueReturned =>
        LET d == RawField("description")
        IN  /\ d = Absent => issue.v.description = Null
            /\ d # Absent /\ d.t = "dict"
                   => AdfToText(d).ok /\ issue.v.description = AdfToText(d).v
            /\ d # Absent /\ d.t # "dict" => issue.v.description = d

\* a tree was rendered into the description of a returned Issue
C12_Witness ==
    /\ IssueReturned
    /\ RawField("description") = GoodTree
    /\ issue.v.description = JStr(<<"#", " ", "a", "\n", "b">>)

\* the TeamMember the spec describes for a raw assignee object
ExpectedMember(a) ==
    [username |-> IF "accountId" \in DOMAIN a.d THEN a.d.accountId
                  ELSE IF "name" \in DOMAIN a.d THEN a.d.name ELSE EmptyStr,
     display_name |-> IF "displayName" \in DOMAIN a.d THEN a.d.displayName ELSE EmptyStr,
     email |-> IF "emailAddress" \in DOMAIN a.d THEN a.d.emailAddress ELSE Null,
     role |-> Null]

AssigneePresent == RawField("assignee") \notin {Absent, Null}

\* C13 as stated: a returned Issue has assignee None exactly when the raw
\* assignee object is not present (missing or null); a present object is
\* never turned into None.
C13_AssigneeAsStated ==
    IssueReturned =>
        /\ (issue.v.assignee = Null) <=> ~AssigneePresent
        /\ AssigneePresent => issue.v.assignee = ExpectedMember(RawField("assignee"))

\* C13 amended: a returned Issue has assignee None exactly when the raw
\* assignee is missing, null or an empty object; any non-empty assignee
\* object becomes the TeamMember with username from accountId (else name, else
\* ""), display_name from displayName and email from emailAddress.
C13_AssigneeTruthy ==
    IssueReturned =>
        /\ (issue.v.assignee = Null) <=> (~AssigneePresent \/ RawField("assignee") = EmptyDict)
        /\ AssigneePresent /\ RawField("assignee") # EmptyDict
               => issue.v.assignee = ExpectedMember(RawField("assignee"))

\* an assignee without accountId got its username from name
C13_Witness ==
    /\ IssueReturned
    /\ RawField("assignee") = NamedAssignee
    /\ issue.v.assignee.username = W("bob")
    /\ issue.v.assignee.email = Null

\* C14: a returned Issue has key "UNKNOWN" when the raw record has no key,
\* labels [] and components [] when those fields are missing, story_points
\* None when the configured field is missing and otherwise the value under
\* the configured field (never another field's), and blocked_by and blocks
\* empty for every input.
C14_AbsentDefaults ==
    IssueReturned =>
        /\ "key" \notin DOMAIN raw.d => issue.v.key = W("UNKNOWN")
        /\ RawField("labels") = Absent => issue.v.labels = JList(<<>>)
        /\ RawField("components") = Absent => issue.v.components = <<>>
        /\ issue.v.story_points = IF RawField(cfgField) = Absent THEN Null ELSE RawField(cfgField)
        /\ issue.v.blocked_by = <<>> /\ issue.v.blocks = <<>>

\* every default at once, with story points present only under a field the
\* client is not configured for
C14_Witness ==
    /\ IssueReturned
    /\ "key" \notin DOMAIN raw.d
    /\ RawField("labels") = Absent /\ RawField("components") = Absent
    /\ cfgField = OtherStoryPointsField
    /\ RawField(DefaultStoryPointsField) = JInt(3) /\ RawField(OtherStoryPointsField) = Absent
    /\ issue.v.key = W("UNKNOWN") /\ issue.v.story_points = Null

(***************************************************************************)
(* Aliasing.  A Python list is an object: heap[n] holds the elements of    *)
(* list object n and Ref(n) is a reference to it.  The caller owns the     *)
(* labels list of the raw issue and may change it after the call.          *)
(***************************************************************************)
MaxLabels == 3      \* elements of the caller's labels list

Ref(n) == [t |-> "ref", at |-> n]

\* the elements a list argument holds: those of the object it refers to
ElementsOf(v, h) == IF v.t = "ref" THEN h[v.at] ELSE v.l

\* (Issue(...) keeping the list object it was handed)
NewIssueShared(args, h) ==
    IF args.labels.t = "ref" THEN [issue |-> args, heap |-> h]
    ELSE [issue |-> [args EXCEPT !.labels = Ref(Len(h) + 1)],
          heap |-> Append(h, args.labels.l)]

\* Issue(...): an entity is a value object constructed fresh, so its labels
\* are a list object of its own holding the elements of the argument
NewIssue(args, h) ==
    [issue |-> [args EXCEPT !.labels = Ref(Len(h) + 1)],
     heap |-> Append(h, ElementsOf(args.labels, h))]

CallerLabels == {<<>>, <<W("a")>>, <<W("a"), W("b")>>}

AliasInit ==
    /\ \E k \in {Absent, W("PROJ-1")}, de \in {Absent, W("plain"), GoodTree} :
           \/ /\ heap \in {<<l>> : l \in CallerLabels}
              /\ raw = JDict(Opt("key", k)
                              @@ ("fields" :> JDict(Opt("description", de) @@ ("labels" :> Ref(1))
                                                     @@ ("created" :> IsoZ) @@ ("updated" :> IsoPlain))))
           \/ /\ heap = <<>>
              /\ raw = JDict(Opt("key", k)
                              @@ ("fields" :> JDict(Opt("description", de)
                                                     @@ ("created" :> IsoZ) @@ ("updated" :> IsoPlain))))
    /\ issue = Pending
    /\ cfgField = DefaultStoryPointsField
    /\ ConvIdle /\ SprintIdle /\ LogIdle /\ AuthIdle /\ SessionIdle /\ ServerIdle

\* one call of _convert_to_issue: it only reads data, and hands
\* fields.get("labels", []) to Issue(...)
NormalizeShared ==
    /\ issue = Pending
    /\ LET r == ConvertToIssue(raw, cfgField, 1, 1)
       IN  IF r.ok
               THEN /\ issue' = Ok(NewIssue(r.v, heap).issue)
                    /\ heap' = NewIssue(r.v, heap).heap
           ELSE issue' = r /\ heap' = heap
    /\ UNCHANGED <<raw, cfgField, convVars, sprintVars, logVars, authVars, sessVars, srvVars>>

\* after the call the caller appends to its labels list
CallerAppends ==
    /\ issue # Pending
    /\ heap # <<>> /\ RawField("labels") = Ref(1)
    /\ Len(heap[1]) < MaxLabels
    /\ heap' = [heap EXCEPT ![1] = Append(@, W("z"))]
    /\ UNCHANGED <<issueVars, convVars, sprintVars, logVars, authVars, sessVars, srvVars>>

\* after the call the caller empties its labels list
CallerClears ==
    /\ issue # Pending
    /\ heap # <<>> /\ RawField("labels") = Ref(1)
    /\ heap[1] # <<>>
    /\ heap' = [heap EXCEPT ![1] = <<>>]
    /\ UNCHANGED <<issueVars, convVars, sprintVars, logVars, authVars, sessVars, srvVars>>

AliasNext == NormalizeShared \/ CallerAppends \/ CallerClears

SpecAlias == AliasInit /\ [][AliasNext]_vars

\* the labels of the returned Issue, as a reader of issue.labels sees them
IssueLabels == heap[issue.v.labels.at]

\* the elements of the caller's labels list
RawLabels == heap[1]

Secret(v) == [t |-> "secret", value |-> v]

SecretTruthy(x) == x # Null /\ x.value # ""

SecretInputs(v) == {Null, Secret(""), Secret(v)}

\* a mode string read from JIRA_AUTH_MODE
Mode(name) == [t |-> "mode", name |-> name]

ModeTruthy(x) == x # Null /\ x.name # ""

AuthModeInputs ==
    {Null} \cup {Mode(name) : name \in {"", "basic", "Basic", "bearer", "BEARER", "digest"}}

\* str.lower() on the mode strings of the model
Lower(mode) ==
    CASE mode \in {"basic", "Basic"} -> "basic"
      [] mode \in {"bearer", "BEARER"} -> "bearer"
      [] OTHER -> mode

SettingsInputs ==
    [jira_username : {"alice", "bob"},
     jira_api_token : SecretInputs("tok"),
     jira_password : SecretInputs("pw"),
     jira_auth_mode : AuthModeInputs]

\* Settings.validate_auth: the validated Settings, or ValueError
ValidateAuth(st) ==
    IF ~SecretTruthy(st.jira_api_token) /\ ~SecretTruthy(st.jira_password) THEN Raise("ValueError")
    ELSE IF ModeTruthy(st.jira_auth_mode)
        THEN IF Lower(st.jira_auth_mode.name) \notin {"basic", "bearer"} THEN Raise("ValueError")
             ELSE Ok([st EXCEPT !.jira_auth_mode = Mode(Lower(st.jira_auth_mode.name))])
    ELSE Ok(st)

\* _create_auth_header(username, api_token): base64 of "username:api_token"
CreateAuthHeader(username, api_token) == [b64 |-> <<username, ":", api_token>>]

\* the attribute auth_header of a client that never assigned it
Unset == [t |-> "unset"]

\* (the Basic credential built only when a password is given)
HasAuthHeaderOnPassword(auth_mode, st) == SecretTruthy(st.jira_password)

\* if self.auth_mode == "basic": self.auth_header = ...
HasAuthHeader(auth_mode, st) == auth_mode = "basic"

\* JiraClient.__init__(settings), the attributes that decide the headers
NewJiraClient(st) ==
    LET auth_secret == IF SecretTruthy(st.jira_password) THEN st.jira_password
                       ELSE st.jira_api_token
    IN  IF auth_secret = Null THEN Raise("JiraError")
        ELSE LET auth_mode == IF ModeTruthy(st.jira_auth_mode) THEN st.jira_auth_mode.name
                              ELSE IF SecretTruthy(st.jira_password) THEN "basic" ELSE "bearer"
             IN  Ok([auth_mode |-> auth_mode,
                     auth_secret_value |-> auth_secret.value,
                     auth_header |-> IF HasAuthHeader(auth_mode, st)
                                         THEN CreateAuthHeader(st.jira_username, auth_secret.value)
                                     ELSE Unset])

\* _get_headers(): reading an attribute never assigned raises AttributeError
GetHeaders(c) ==
    IF c.auth_mode = "bearer"
        THEN Ok([Authorization |-> <<"Bearer", c.auth_secret_value>>,
                 ContentType |-> "application/json", Accept |-> "application/json"])
    ELSE IF c.auth_header = Unset THEN Raise("AttributeError")
    ELSE Ok([Authorization |-> <<"Basic", c.auth_header>>,
             ContentType |-> "application/json", Accept |-> "application/json"])

AuthInit ==
    /\ settings \in {[in |-> st, validated |-> Pending] : st \in SettingsInputs}
    /\ jclient = Pending /\ headers = Pending
    /\ ConvIdle /\ IssueIdle /\ SprintIdle /\ LogIdle /\ HeapIdle /\ SessionIdle /\ ServerIdle

\* Settings(): the model validator runs
LoadSettings ==
    /\ settings.validated = Pending
    /\ settings' = [settings EXCEPT !.validated = ValidateAuth(settings.in)]
    /\ UNCHANGED <<jclient, headers, convVars, issueVars, sprintVars, logVars, heap, sessVars, srvVars>>

\* JiraClient(settings) for Settings that validation accepted
ConstructClient ==
    /\ settings.validated.ok
    /\ jclient = Pending
    /\ jclient' = NewJiraClient(settings.validated.v)
    /\ UNCHANGED <<settings, headers, convVars, issueVars, sprintVars, logVars, heap, sessVars, srvVars>>

\* the headers of a request
RequestHeaders ==
    /\ jclient # Pending /\ jclient.ok
    /\ headers = Pending
    /\ headers' = GetHeaders(jclient.v)
    /\ UNCHANGED <<settings, jclient, convVars, issueVars, sprintVars, logVars, heap, sessVars, srvVars>>

AuthNext == LoadSettings \/ ConstructClient \/ RequestHeaders

SpecAuth == AuthInit /\ [][AuthNext]_vars

\* a secret counts as provided when it is set to a non-empty value
Provided(x) == x # Null /\ x.value # ""

\* the mode the claim selects for the Settings read from the environment
SelectedMode ==
    LET st == settings.in
    IN  IF st.jira_auth_mode \in {Null, Mode("")}
            THEN IF Provided(st.jira_password) THEN "basic" ELSE "bearer"
        ELSE IF st.jira_auth_mode \in {Mode("basic"), Mode("Basic")} THEN "basic" ELSE "bearer"

\* the secret the client authenticates with: the password when provided
SelectedSecret ==
    IF Provided(settings.in.jira_password) THEN "pw" ELSE "tok"

\* C15: for every Settings validation accepts, the client is constructed, its
\* mode is the configured one or, when none is configured, basic with a
\* password and bearer with a token only, and the headers carry
\* Authorization with the scheme of that mode; the Basic credential is
\* always defined (base64 of username:secret).
C15_AuthMode ==
    /\ jclient # Pending => jclient.ok /\ jclient.v.auth_mode = SelectedMode
    /\ headers # Pending =>
           /\ headers.ok
           /\ SelectedMode = "bearer" => headers.v.Authorization = <<"Bearer", SelectedSecret>>
           /\ SelectedMode = "basic" =>
                  headers.v.Authorization =
                      <<"Basic", [b64 |-> <<settings.in.jira_username, ":", SelectedSecret>>]>>

\* basic was configured with only a token: the Basic credential is built
\* from the token
C15_Witness ==
    /\ headers # Pending /\ headers.ok
    /\ settings.in.jira_auth_mode = Mode("Basic")
    /\ settings.in.jira_password = Null
    /\ headers.v.Authorization = <<"Basic", [b64 |-> <<"alice", ":", "tok">>]>>

(***************************************************************************)
(* The session of a client shared by concurrent tasks.  get_session has    *)
(* no await and runs in one step; close awaits session.close() and so runs *)
(* in two steps, between which other tasks may run.  sessions[n] is the    *)
(* state of the n-th ClientSession created; aiohttp marks a session closed *)
(* as soon as its close() is called.                                       *)
(***************************************************************************)
NumTasks == 2       \* tasks using the client
MaxSessions == 3    \* ClientSession objects created

Tasks == 1..NumTasks

IdleTask == [pc |-> "idle", got |-> 0]

SessionInit ==
    /\ sessions = <<>>
    /\ session = 0
    /\ tasks = [i \in Tasks |-> IdleTask]
    /\ ConvIdle /\ IssueIdle /\ SprintIdle /\ LogIdle /\ HeapIdle /\ AuthIdle /\ ServerIdle

SessionFrame == UNCHANGED <<convVars, issueVars, sprintVars, logVars, heap, authVars, srvVars>>

\* self.session is None or self.session.closed
NeedsSession == IF session = 0 THEN TRUE ELSE sessions[session] = "closed"

\* get_session(), no session open: a new ClientSession is created and kept
GetSessionNew(i) ==
    /\ tasks[i].pc = "idle"
    /\ NeedsSession
    /\ Len(sessions) < MaxSessions
    /\ sessions' = Append(sessions, "open")
    /\ session' = Len(sessions) + 1
    /\ tasks' = [tasks EXCEPT ![i].got = Len(sessions) + 1]
    /\ SessionFrame

\* get_session(), a session open: it is returned
GetSessionExisting(i) ==
    /\ tasks[i].pc = "idle"
    /\ ~NeedsSession
    /\ tasks' = [tasks EXCEPT ![i].got = session]
    /\ UNCHANGED <<sessions, session>>
    /\ SessionFrame

\* close() up to its await: if self.session: await self.session.close()
CloseBegin(i) ==
    /\ tasks[i].pc = "idle"
    /\ session # 0
    /\ sessions' = [sessions EXCEPT ![session] = "closed"]
    /\ tasks' = [tasks EXCEPT ![i].pc = "closing"]
    /\ UNCHANGED session
    /\ SessionFrame

\* close() after its await: self.session = None
CloseEnd(i) ==
    /\ tasks[i].pc = "closing"
    /\ session' = 0
    /\ tasks' = [tasks EXCEPT ![i].pc = "idle"]
    /\ UNCHANGED sessions
    /\ SessionFrame

SessionNext ==
    \E i \in Tasks : GetSessionNew(i) \/ GetSessionExisting(i) \/ CloseBegin(i) \/ CloseEnd(i)

SpecSession == SessionInit /\ [][SessionNext]_vars

OpenSessions == {n \in 1..Len(sessions) : sessions[n] = "open"}

NoCloseRunning == \A i \in Tasks : tasks[i].pc = "idle"

\* C17 as stated: at most one session is open, and whenever no close() is
\* running every open session that get_session created is the one the
\* client references.
C17_SessionLifecycle ==
    /\ Cardinality(OpenSessions) <= 1
    /\ NoCloseRunning => \A n \in OpenSessions : session = n

(***************************************************************************)
(* The client's request operations.  A response has a status, a JSON body  *)
(* (response.json()) and a text (response.text()).                         *)
(***************************************************************************)
Operations ==
    {"create_issue", "get_sprint", "get_sprint_issues", "search_issues",
     "get_issue_history", "_get_board_sprints"}

\* (every operation expecting 200)
ExpectedStatusOk(op) == 200

\* if response.status == 201 (create_issue) / == 200 (the others)
ExpectedStatus(op) == IF op = "create_issue" THEN 201 ELSE 200

\* the text before the response body in the JiraError message
FailurePrefix(op) ==
    CASE op = "create_issue" -> "Failed to create issue: "
      [] op = "get_sprint" -> "Failed to get sprint: "
      [] op = "get_sprint_issues" -> "Failed to get sprint issues: "
      [] op = "search_issues" -> "Failed to search issues: "
      [] op = "get_issue_history" -> "Failed to get issue history: "
      [] op = "_get_board_sprints" -> "Failed to get board sprints: "

\* the converted list, or the first exception
AllOrFirstFailure(rs) ==
    IF \E n \in 1..Len(rs) : ~rs[n].ok THEN FirstFailure(rs)
    ELSE Ok([n \in 1..Len(rs) |-> rs[n].v])

\* [self._convert_to_issue(i) for i in data["issues"]]
ConvertIssues(d, c) ==
    IF ~Subscript(d, "issues").ok THEN Subscript(d, "issues")
    ELSE AllOrFirstFailure([n \in 1..Len(d.issues.l) |->
                               ConvertToIssue(d.issues.l[n], c.story_points_field, 1, 1)])

\* [self._convert_to_sprint(s) for s in data["values"]]
ConvertSprints(d) ==
    IF ~Subscript(d, "values").ok THEN Subscript(d, "values")
    ELSE AllOrFirstFailure([n \in 1..Len(d.values.l) |-> ConvertToSprint(d.values.l[n])])

\* what an operation makes of the body of a response with the expected status
ParseBody(op, json, c) ==
    CASE op = "create_issue" -> Subscript(json.d, "key")
      [] op = "get_sprint" -> ConvertToSprint(json)
      [] op \in {"get_sprint_issues", "search_issues"} -> ConvertIssues(json.d, c)
      [] op = "_get_board_sprints" -> ConvertSprints(json.d)
      [] op = "get_issue_history" ->
             IF ~Subscript(json.d, "values").ok THEN Subscript(json.d, "values")
             ELSE ProcessChangelog(json.d.values.l)

\* the outcome of an operation of client c on a response
OpResult(op, resp, c) ==
    IF resp.status = ExpectedStatus(op) THEN ParseBody(op, resp.json, c)
    ELSE RaiseAbout("JiraError", JStr(<<FailurePrefix(op)>> \o resp.text.s))

(***************************************************************************)
(* Responses of the tracker.                                               *)
(***************************************************************************)
Statuses == {200, 201, 404}

SprintBody(id, state) ==
    JDict([id |-> JInt(id), name |-> W("Sprint"), state |-> W(state)])

IssueBody(key, status, points) ==
    JDict([key |-> W(key),
           fields |-> JDict(Opt(DefaultStoryPointsField, points)
                              @@ [summary |-> W("s"), status |-> JDict([name |-> W(status)]),
                                  created |-> IsoZ, updated |-> IsoPlain])])

IssueLists ==
    { <<>>,
      <<IssueBody("P-1", "To Do", Absent)>>,
      <<IssueBody("P-1", "Done", JInt(3))>>,
      <<IssueBody("P-1", "Done", JInt(3)), IssueBody("P-2", "In Progress", JInt(5))>>,
      <<IssueBody("P-1", "Blocked", Null), IssueBody("P-2", "In Progress", JInt(0))>>,
      <<JDict([fields |-> Null])>> }

Bodies(op) ==
    CASE op = "create_issue" -> {JDict([key |-> W("PROJ-9")]), EmptyDict}
      [] op = "get_sprint" ->
             {SprintBody(7, "active"), SprintBody(7, "closed"), SprintBody(7, "unknown_state")}
      [] op \in {"get_sprint_issues", "search_issues"} ->
             {EmptyDict} \cup {JDict([issues |-> JList(l)]) : l \in IssueLists}
      [] op = "_get_board_sprints" ->
             { EmptyDict, JDict([values |-> JList(<<>>)]),
               JDict([values |-> JList(<<SprintBody(8, "active")>>)]),
               JDict([values |-> JList(<<SprintBody(8, "active"), SprintBody(9, "active")>>)]) }
      [] op = "get_issue_history" ->
             { EmptyDict, JDict([values |-> JList(<<>>)]),
               JDict([values |-> JList(<<Entry(IsoZ, "A", <<StatusItem(W("Open"), W("Done"))>>)>>)]) }

\* a success response carries a body of the operation; any response may
\* carry an error text instead
Responses(op) ==
    {[status |-> st, json |-> b, text |-> W("")] : st \in {200, 201}, b \in Bodies(op)}
        \cup {[status |-> st, json |-> EmptyDict, text |-> tx] :
                 st \in Statuses, tx \in {W("Not Found"), W("denied")}}

(***************************************************************************)
(* The server: call_tool and its handlers.  A handler runs up to its next  *)
(* awaited client operation (Await) or to its end (Return, Fail); the      *)
(* layout of a report is left out, the figures it shows are kept.          *)
(***************************************************************************)
\* TextContent(type="text", text=...), the text a sequence of symbols
TextReply(symbols) == [type |-> "text", text |-> symbols]

\* TextContent(type="text", text=report), the report by its figures
ReportReply(figures) == [type |-> "text", report |-> figures]

\* str(e): the message of JiraError and ZeroDivisionError; the message of any
\* other exception is abbreviated by one symbol naming the exception
MessageOf(r) ==
    CASE r.exc = "JiraError" -> r.about.s
      [] r.exc = "ZeroDivisionError" -> <<"division by zero">>
      [] OTHER -> <<r.exc>>

Await(op, arg, sp, rest, acc) ==
    [next |-> "await", result |-> Pending,
     ctx |-> [op |-> op, arg |-> arg, sprint |-> sp, rest |-> rest, acc |-> acc]]

Return(content) == [next |-> "done", result |-> Ok(content), ctx |-> Null]

Fail(r) == [next |-> "done", result |-> r, ctx |-> Null]

RECURSIVE SumOf(_)
SumOf(ns) == IF ns = <<>> THEN 0 ELSE Head(ns) + SumOf(Tail(ns))

HasPoints(i) == Truthy(i.story_points)

IsDone(i) == i.status = W("Done")

\* sum(issue.story_points for issue in issues if issue.story_points)
TotalPoints(issues) ==
    LET counted == SelectSeq(issues, HasPoints)
    IN  SumOf([n \in 1..Len(counted) |-> counted[n].story_points.n])

\* ... if issue.story_points and issue.status.value == "Done"
CompletedPoints(issues) == TotalPoints(SelectSeq(issues, IsDone))

\* completed / total * 100, in whole percent
Percent(completed, total) ==
    IF total = 0 THEN Raise("ZeroDivisionError") ELSE Ok((completed * 100) \div total)

\* (the progress of the sprint report computed without its guard)
CompletionRateUnguarded(completed, total) == Percent(completed, total)

\* (completed_points / total_points * 100) if total_points > 0 else 0
CompletionRate(completed, total) == IF total > 0 THEN Percent(completed, total) ELSE Ok(0)

\* (completed_points/total_points*100) inside the report line
StandupProgress(completed, total) == Percent(completed, total)

CountStatus(issues, status) == Cardinality({n \in 1..Len(issues) : issues[n].status = W(status)})

\* the end of handle_sprint_status, from "Calculate metrics" on
SprintStatusReport(sp, issues) ==
    LET total == TotalPoints(issues)
        completed == CompletedPoints(issues)
        rate == CompletionRate(completed, total)
    IN  IF ~rate.ok THEN Fail(rate)
        ELSE Return(ReportReply([kind |-> "sprint_status", sprint |-> sp.id, rate |-> rate.v,
                                 completed |-> completed, total |-> total,
                                 issues |-> Len(issues),
                                 in_progress |-> CountStatus(issues, "In Progress"),
                                 blocked |-> CountStatus(issues, "Blocked")]))

\* the end of handle_standup_report, from "Categorize issues" on
StandupReport(sp, issues) ==
    LET total == TotalPoints(issues)
        completed == CompletedPoints(issues)
        rate == StandupProgress(completed, total)
    IN  IF ~rate.ok THEN Fail(rate)
        ELSE Return(ReportReply([kind |-> "standup", sprint |-> sp.id, rate |-> rate.v,
                                 completed |-> completed, total |-> total,
                                 issues |-> Len(issues),
                                 in_progress |-> CountStatus(issues, "In Progress"),
                                 blocked |-> CountStatus(issues, "Blocked")]))

NoSprintText(name) ==
    IF name = "get_sprint_status" THEN <<"No active sprint found.">>
    ELSE <<"No active sprint found for standup report.">>

\* (get_active_sprint without the client's default board)
ActiveSprintNoDefault(name, board_id, c) ==
    IF ~Truthy(board_id) THEN Return(TextReply(NoSprintText(name)))
    ELSE Await("_get_board_sprints", board_id, Null, <<>>, <<>>)

\* get_active_sprint(board_id) up to its request
ActiveSprint(name, board_id, c) ==
    LET target_board == IF Truthy(board_id) THEN board_id ELSE c.board_id
    IN  IF ~Truthy(target_board) THEN Return(TextReply(NoSprintText(name)))
        ELSE Await("_get_board_sprints", target_board, Null, <<>>, <<>>)

\* the handler of tool name, up to its first request
HandlerStart(name, args, c) ==
    CASE name = "create_issue" ->
             LET steps == <<Subscript(args, "summary"), Subscript(args, "description"),
                            IF ~Subscript(args, "issue_type").ok THEN Subscript(args, "issue_type")
                            ELSE EnumCall(IssueTypeValues, args.issue_type),
                            IF ~Subscript(args, "priority").ok THEN Subscript(args, "priority")
                            ELSE EnumCall(PriorityValues, args.priority)>>
             IN  IF \E k \in 1..Len(steps) : ~steps[k].ok THEN Fail(FirstFailure(steps))
                 ELSE Await("create_issue", args.summary, Null, <<>>, <<>>)
      [] name = "search_issues" ->
             IF ~Subscript(args, "jql").ok THEN Fail(Subscript(args, "jql"))
             ELSE Await("search_issues", args.jql, Null, <<>>, <<>>)
      [] name = "get_sprint_status" ->
             LET sprint_id == Get(args, "sprint_id", Null)
             IN  IF Truthy(sprint_id) THEN Await("get_sprint", sprint_id, Null, <<>>, <<>>)
                 ELSE ActiveSprint(name, Get(args, "board_id", Null), c)
      [] name = "generate_standup_report" -> ActiveSprint(name, Get(args, "board_id", Null), c)
      [] name = "get_team_workload" ->
             IF ~Subscript(args, "team_members").ok THEN Fail(Subscript(args, "team_members"))
             ELSE LET team_members == args.team_members.l
                  IN  IF team_members = <<>>
                          THEN Return(ReportReply([kind |-> "workload", members |-> <<>>]))
                      ELSE Await("search_issues", Head(team_members), Null,
                                 Tail(team_members), <<>>)
      [] OTHER -> Return(TextReply(<<"Unknown tool: ", name>>))

\* one member of handle_team_workload: the figures, or the error caught
WorkloadLine(member, r) ==
    IF r.ok THEN [member |-> member, total |-> TotalPoints(r.v), issues |-> Len(r.v)]
    ELSE [member |-> member, error |-> MessageOf(r)]

\* the handler of tool name, from the outcome r of the operation it awaited
HandlerResume(name, cx, r) ==
    IF name = "get_team_workload"
        THEN LET acc == Append(cx.acc, WorkloadLine(cx.arg, r))
             IN  IF cx.rest = <<>> THEN Return(ReportReply([kind |-> "workload", members |-> acc]))
                 ELSE Await("search_issues", Head(cx.rest), Null, Tail(cx.rest), acc)
    ELSE IF ~r.ok THEN Fail(r)
    ELSE CASE cx.op = "create_issue" ->
                  Return(ReportReply([kind |-> "created", key |-> r.v, summary |-> cx.arg]))
           [] cx.op = "search_issues" ->
                  IF r.v = <<>> THEN Return(TextReply(<<"No issues found matching the query.">>))
                  ELSE Return(ReportReply([kind |-> "found", issues |-> Len(r.v)]))
           [] cx.op = "get_sprint" -> Await("get_sprint_issues", r.v.id, r.v, <<>>, <<>>)
           [] cx.op = "_get_board_sprints" ->
                  IF r.v = <<>> THEN Return(TextReply(NoSprintText(name)))
                  ELSE Await("get_sprint_issues", r.v[1].id, r.v[1], <<>>, <<>>)
           [] cx.op = "get_sprint_issues" ->
                  IF name = "get_sprint_status" THEN SprintStatusReport(cx.sprint, r.v)
                  ELSE StandupReport(cx.sprint, r.v)

\* (a handler that catches JiraError only)
CaughtJiraErrorOnly(r) == r.exc = "JiraError"

\* except Exception: every exception a handler or the client raises here
\* (JiraError, KeyError, ValueError, TypeError, AttributeError,
\* ZeroDivisionError) is an Exception
Caught(r) ==
    r.exc \in {"JiraError", "KeyError", "ValueError", "TypeError", "AttributeError",
               "ZeroDivisionError"}

\* except Exception as e: "Error: " + str(e)
ErrorReply(r) == TextReply(<<"Error: ">> \o MessageOf(r))

(***************************************************************************)
(* Tool calls.                                                             *)
(***************************************************************************)
CreateArgs ==
    LET full == [summary |-> W("s"), description |-> W("d"),
                 issue_type |-> W("Bug"), priority |-> W("High")]
    IN  {full, [full EXCEPT !.issue_type = W("Nonsense")],
         [description |-> W("d"), issue_type |-> W("Bug"), priority |-> W("High")]}

SprintArgs ==
    {Opt("sprint_id", sid) @@ Opt("board_id", bid) :
        sid \in {Absent, JInt(0), JInt(7)}, bid \in {Absent, JInt(0), JInt(4)}}

WorkloadArgs ==
    {<<>>} \cup {[team_members |-> JList(l)] : l \in {<<>>, <<W("alice")>>, <<W("alice"), W("bob")>>}}

ToolCalls ==
    {[name |-> "create_issue", args |-> a] : a \in CreateArgs}
        \cup {[name |-> "search_issues", args |-> a] : a \in {<<>>, [jql |-> W("q")]}}
        \cup {[name |-> n, args |-> a] :
                 n \in {"get_sprint_status", "generate_standup_report"}, a \in SprintArgs}
        \cup {[name |-> "get_team_workload", args |-> a] : a \in WorkloadArgs}
        \cup {[name |-> n, args |-> <<>>] : n \in {"delete_issue", ""}}

\* Settings.default_board_id of the client main() constructs
DefaultBoards == {Null, JInt(0), JInt(5)}

ServerInit ==
    /\ jira_client = Null /\ tool = Null /\ spc = "idle" /\ ctx = Null
    /\ reply = Null /\ trace = <<>> /\ last = Null
    /\ ConvIdle /\ IssueIdle /\ SprintIdle /\ LogIdle /\ HeapIdle /\ AuthIdle /\ SessionIdle

ServerFrame == UNCHANGED <<convVars, issueVars, sprintVars, logVars, heap, authVars, sessVars>>

\* main(): jira_client = JiraClient(settings)
Main ==
    /\ jira_client = Null /\ spc = "idle"
    /\ \E b \in DefaultBoards :
           jira_client' = [board_id |-> b, story_points_field |-> DefaultStoryPointsField]
    /\ UNCHANGED <<tool, spc, ctx, reply, trace, last>>
    /\ ServerFrame

\* the handler has reached an await or its end; call_tool turns an
\* exception into an error text
Proceed(step) ==
    IF step.next = "await"
        THEN /\ spc' = "awaiting"
             /\ ctx' = step.ctx
             /\ trace' = Append(trace, [op |-> step.ctx.op, arg |-> step.ctx.arg])
             /\ reply' = reply
    ELSE IF step.result.ok \/ Caught(step.result)
        THEN /\ spc' = "done"
             /\ ctx' = Null
             /\ trace' = trace
             /\ reply' = IF step.result.ok THEN step.result.v ELSE ErrorReply(step.result)
    ELSE /\ spc' = "raised"
         /\ ctx' = Null
         /\ trace' = trace
         /\ reply' = reply

\* call_tool(name, arguments)
CallTool ==
    /\ spc = "idle"
    /\ \E call \in ToolCalls :
           /\ tool' = call
           /\ IF jira_client = Null
                  THEN /\ reply' = TextReply(<<"Error: Jira client not initialized">>)
                       /\ spc' = "done"
                       /\ UNCHANGED <<ctx, trace>>
              ELSE Proceed(HandlerStart(call.name, call.args, jira_client))
    /\ UNCHANGED <<jira_client, last>>
    /\ ServerFrame

\* a caller of the client library asks for the history of an issue
CallGetIssueHistory ==
    /\ spc = "idle" /\ jira_client # Null
    /\ Proceed(Await("get_issue_history", W("PROJ-1"), Null, <<>>, <<>>))
    /\ UNCHANGED <<jira_client, tool, last>>
    /\ ServerFrame

\* the tracker answers the awaited operation op
Respond(op) ==
    /\ spc = "awaiting" /\ ctx.op = op
    /\ \E resp \in Responses(op) :
           LET r == OpResult(op, resp, jira_client)
           IN  /\ last' = [op |-> op, status |-> resp.status, text |-> resp.text, result |-> r]
               /\ IF tool = Null
                      THEN spc' = "done" /\ ctx' = Null /\ UNCHANGED <<reply, trace>>
                  ELSE Proceed(HandlerResume(tool.name, ctx, r))
    /\ UNCHANGED <<jira_client, tool>>
    /\ ServerFrame

RespondCreateIssue == Respond("create_issue")
RespondGetSprint == Respond("get_sprint")
RespondGetSprintIssues == Respond("get_sprint_issues")
RespondSearchIssues == Respond("search_issues")
RespondGetIssueHistory == Respond("get_issue_history")
RespondGetBoardSprints == Respond("_get_board_sprints")

ServerNext ==
    \/ Main \/ CallTool \/ CallGetIssueHistory
    \/ RespondCreateIssue \/ RespondGetSprint \/ RespondGetSprintIssues
    \/ RespondSearchIssues \/ RespondGetIssueHistory \/ RespondGetBoardSprints

SpecServer == ServerInit /\ [][ServerNext]_vars

(***************************************************************************)
(* Server properties.                                                      *)
(***************************************************************************)
ToolDone == tool # Null /\ spc = "done"

Requested(op) == \E n \in 1..Len(trace) : trace[n].op = op

ToolArg(k) == IF k \in DOMAIN tool.args THEN tool.args[k] ELSE Absent

\* the reply is the text of the given symbols
Says(symbols) == "text" \in DOMAIN reply /\ reply.text = symbols

\* C16 as stated, for a get_sprint_status call: with a sprint_id the first
\* request is for that sprint; with none it is for the sprints of the given
\* board, or of the configured board when none is given; with no board, or a
\* board without active sprint, the answer is "No active sprint found." and
\* sprint issues are never requested.
SprintStatusRule(HasSprint, HasBoard, HasDefault) ==
    (tool # Null /\ tool.name = "get_sprint_status" /\ jira_client # Null) =>
        LET board == IF HasBoard THEN ToolArg("board_id") ELSE jira_client.board_id
        IN  /\ HasSprint =>
                /\ trace # <<>>
                /\ trace[1] = [op |-> "get_sprint", arg |-> ToolArg("sprint_id")]
                /\ spc = "awaiting" /\ ctx.op = "get_sprint_issues" => ctx.arg = last.result.v.id
            /\ ~HasSprint /\ (HasBoard \/ HasDefault) =>
                /\ trace # <<>>
                /\ trace[1] = [op |-> "_get_board_sprints", arg |-> board]
                /\ Len(trace) = 1 /\ last # Null /\ last.result.ok /\ last.result.v = <<>>
                       => ToolDone /\ Says(<<"No active sprint found.">>)
                /\ spc = "awaiting" /\ ctx.op = "get_sprint_issues"
                       => ctx.arg = last.result.v[1].id
            /\ ~HasSprint /\ ~HasBoard /\ ~HasDefault =>
                /\ ToolDone /\ trace = <<>> /\ Says(<<"No active sprint found.">>)
            /\ ToolDone /\ Says(<<"No active sprint found.">>) => ~Requested("get_sprint_issues")

C16_SprintSelectionAsStated ==
    SprintStatusRule(ToolArg("sprint_id") # Absent, ToolArg("board_id") # Absent,
                     jira_client.board_id # Null)

\* C16 amended: a sprint_id, a board_id or a default board of 0 counts as not
\* given.
C16_SprintSelection ==
    SprintStatusRule(ToolArg("sprint_id") \notin {Absent, JInt(0)},
                     ToolArg("board_id") \notin {Absent, JInt(0)},
                     jira_client.board_id \notin {Null, JInt(0)})

\* no board was given, the default board had no active sprint, and the
\* server answered without asking for sprint issues
C16_Witness ==
    /\ ToolDone /\ tool.name = "get_sprint_status" /\ tool.args = <<>>
    /\ trace = <<[op |-> "_get_board_sprints", arg |-> JInt(5)]>>
    /\ last.result.ok /\ last.result.v = <<>>
    /\ Says(<<"No active sprint found.">>)

KnownTools ==
    {"create_issue", "search_issues", "get_sprint_status", "get_team_workload",
     "generate_standup_report"}

\* C18: call_tool never raises and every finished call has a text result;
\* before the client is initialized the result is "Error: Jira client not
\* initialized" and nothing was requested; an unknown tool name gives
\* "Unknown tool: <name>"; an exception of a handler (a missing argument, a
\* failed client operation outside the per-member handler of
\* get_team_workload, a division by zero) gives "Error: <message>".
C18_CallToolTotal ==
    /\ spc # "raised"
    /\ ToolDone =>
           /\ reply # Null /\ reply.type = "text"
           /\ jira_client = Null =>
                  Says(<<"Error: Jira client not initialized">>) /\ trace = <<>>
           /\ jira_client # Null /\ tool.name \notin KnownTools =>
                  Says(<<"Unknown tool: ", tool.name>>)
           /\ jira_client # Null /\ tool.name = "search_issues" /\ ToolArg("jql") = Absent =>
                  Says(<<"Error: ", "KeyError">>)
           /\ (jira_client # Null /\ tool.name \in KnownTools \ {"get_team_workload"}
                   /\ last # Null /\ ~last.result.ok) =>
                  /\ "text" \in DOMAIN reply /\ Head(reply.text) = "Error: "
                  /\ last.result.exc = "JiraError" => reply.text = <<"Error: ">> \o last.result.about.s

\* a failed request of a handler came back as an error text
C18_Witness ==
    /\ ToolDone /\ tool.name = "create_issue"
    /\ last # Null /\ last.status = 404
    /\ Says(<<"Error: ", "Failed to create issue: ", "Not Found">>)

\* the issues of the sprint, once get_sprint_issues has returned them
SprintIssuesFetched ==
    /\ ToolDone /\ tool.name \in {"get_sprint_status", "generate_standup_report"}
    /\ last # Null /\ last.op = "get_sprint_issues" /\ last.result.ok

NoPoints == \A n \in 1..Len(last.result.v) : last.result.v[n].story_points \in {Null, JInt(0)}

\* C19 as stated: whatever issues the sprint has, get_sprint_status and
\* generate_standup_report return their report, with 0% progress when the
\* sprint is empty or no issue has story points.
C19_ProgressForEverySprint ==
    SprintIssuesFetched =>
        /\ "report" \in DOMAIN reply
        /\ NoPoints => reply.report.rate = 0

\* C20: an operation returns a result only on its success status (201 for
\* create_issue, 200 for the others); on any other status it raises
\* JiraError whose message ends with the response text.
C20_StatusChecked ==
    last # Null =>
        LET expected == IF last.op = "create_issue" THEN 201 ELSE 200
        IN  /\ last.result.ok => last.status = expected
            /\ last.status # expected =>
                   /\ ~last.result.ok /\ last.result.exc = "JiraError"
                   /\ Len(last.result.about.s) > Len(last.text.s)
                   /\ Drop(last.result.about.s, Len(last.result.about.s) - Len(last.text.s))
                          = last.text.s

\* create_issue was answered 200 and raised JiraError with the body
C20_Witness ==
    /\ last # Null /\ last.op = "create_issue" /\ last.status = 200
    /\ last.text = W("denied")
    /\ ~last.result.ok /\ last.result.exc = "JiraError"
    /\ last.result.about = JStr(<<"Failed to create issue: ", "denied">>)

=============================================================================
